---- MODULE Spec2Model ----
(***************************************************************************)
(* State-machine model of the device trust and tunnel layer of             *)
(* on-prem-cloud-connector:                                                *)
(*   - TokenManager (src/token_manager.py), the authority the registry     *)
(*     service (src/cloud/registry/main.py) constructs and serves;         *)
(*   - the registry's HTTP endpoints (src/cloud/registry/main.py);         *)
(*   - the forwarding gateway (src/cloud/proxy/reverse_proxy.py);          *)
(*   - the role-aware TokenManager with its periodic token rotation        *)
(*     (src/cloud/registry/token_manager.py), a class of its own that the  *)
(*     registry service does not construct;                                *)
(*   - the state file of the registry service (save_state, load_state);    *)
(*   - the on-prem agent (src/onprem/connector/agent.py): its start() task *)
(*     and its publish_data call, whose waits of seconds are counted on    *)
(*     their own and take no tick.                                         *)
(*                                                                         *)
(* Time is counted in ticks of half an hour (token_expiry_hours and        *)
(* max_age_hours are hours in the source).  A JWT is modelled by its       *)
(* payload <<device_id, exp>> (exp has whole-second precision, so two      *)
(* tokens signed for one id in one tick are the same string) and by whether*)
(* its HS256 signature verifies under the shared secret; only the          *)
(* authority can mint a token whose signature verifies.  jwt.decode is     *)
(* PyJWT's: signature first, then exp, a token being expired from the      *)
(* second exp on (exp <= now).                                             *)
(*                                                                         *)
(* The handlers of the registry are coroutines that never await between    *)
(* their dependency (verify_token) and the end of their body, so each is   *)
(* one atomic step of the event loop.  The gateway's forward_request       *)
(* awaits the registry and the device, so it is a sequence of steps.       *)
(***************************************************************************)
EXTENDS Integers, FiniteSets, Sequences, TLC

\* ---------------------------------------------------------------- bounds
\* the clock stops after MaxTime ticks
MaxTime == 2
\* the gateway's specification has its own horizon
GwMaxTime == 2
\* the horizon of the role-aware TokenManager's specification
RbacMaxTime == 4
\* the horizon of the registry's specification with two devices
PeersMaxTime == 1
AgentMaxTime == 2
PersistMaxTime == 2
\* the longest text and the largest chunk_size given to _stream_data
MaxDataLen == 3
MaxChunkSize == 3

\* ------------------------------------------------------ program constants
\* TokenManager(token_expiry_hours=1) in the registry service
TokenExpiryHours == 1
\* cleanup_expired_devices(max_age_hours=24)
DefaultMaxAgeHours == 24
\* one hour, in clock ticks: a tick is half an hour
Hour == 1 + 1

\* ----------------------------------------------------------------- inputs
\* the device ids clients register with; the empty string is a str too
DeviceIds == {"", "dev-1"}
\* the ids of the gateway's specification
GwDeviceIds == {"dev-1"}
\* a {device_id} path parameter only matches a non-empty path segment
PathIds == {"dev-1", "dev-2"}
Url == "http://10.0.0.5:9000"
\* a dict is the set of its <<key, value>> items
UrlDict == {<<"url", Url>>}
\* the optional metadata of a registration: None, {} or {"url": ...}
MetadataInputs ==
    { [none |-> TRUE, dict |-> {}],
      [none |-> FALSE, dict |-> {}],
      [none |-> FALSE, dict |-> UrlDict] }
\* the body of PUT /device/{id}/metadata
UpdateInputs == { UrlDict }
\* the hours a caller of cleanup_expired_devices passes
MaxAgeInputs == {0, TokenExpiryHours, DefaultMaxAgeHours}
\* what the device target does with the outbound request: it answers with a
\* status, the total timeout expires, or the transport fails
DownstreamStatuses == {200, 404, 500}
\* the header lines of a downstream response, in the order received: a name
\* may be repeated
DownstreamHeaders ==
    { << <<"content-type", "text/plain">> >>,
      << <<"set-cookie", "a=1">>, <<"set-cookie", "b=2">> >> }
DownstreamResponses ==
    [status : DownstreamStatuses, headers : DownstreamHeaders, body : {"payload"}]
\* the header lines of an inbound forward request besides Authorization, in
\* the order received, names in lower case as the server presents them: a
\* name may be repeated
InboundHeaders ==
    { << <<"content-length", "7">>, <<"accept", "*/*">> >>,
      << <<"content-length", "7">>, <<"accept", "text/html">>,
         <<"accept", "application/json">> >> }
\* the inbound requests of the POST route /forward/{device_id}/{endpoint}
InboundRequests ==
    [method : {"POST"}, endpoint : {"api/status"}, headers : InboundHeaders,
     body : {"reading"}, client_host : {"198.51.100.7"}]
\* what a failed connection or transfer raises
TransportErrors == {"Connection refused", "Connection reset by peer"}
\* what raises before the outbound request is issued
SetupErrors == {"CA bundle not found"}

VARIABLES
    now,        \* the clock, in ticks
    devices,    \* TokenManager.devices: device_id -> record
    issued,     \* the token payloads <<device_id, exp>> the authority has signed
    reg,        \* the POST /register request in flight to the registry, if any
    revoked,    \* ids whose revoke succeeded and that were not registered since
    preRevoke,  \* payloads signed before a successful revoke of their subject
                \* and not signed again since
    fwd,        \* the gateway's forward request in progress
    registered_devices, \* the role-aware TokenManager's directory
    minted,     \* the tokens the role-aware TokenManager has signed
    rotation,   \* the periodic token rotation task of that TokenManager
    agent,      \* the on-prem agent: its start() task and its credential
    pub,        \* the agent's publish_data call in progress
    cloud,      \* what a request of the agent to the cloud meets
    disk,       \* the state file of the registry service and how the
                \* service last started from it
    strm        \* one run of the agent's _stream_data generator

\* the state of the registry service and of the gateway
coreVars == <<devices, issued, reg, revoked, preRevoke, fwd, disk>>
\* the state of the role-aware TokenManager (cloud/registry/token_manager.py)
rbacVars == <<registered_devices, minted, rotation>>
\* the state of the on-prem agent (onprem/connector/agent.py)
agentVars == <<agent, pub, cloud>>
otherVars ==
    <<registered_devices, minted, rotation, agent, pub, cloud, disk, strm>>

vars == <<now, devices, issued, reg, revoked, preRevoke, fwd,
          registered_devices, minted, rotation, agent, pub, cloud, disk, strm>>

\* ------------------------------------------------------------ directory
\* a record is {device_id, metadata, registered_at, last_seen}; registered_at
\* is written once and read by no operation, and is left out of the state
Epoch(t) == [repr |-> "epoch", t |-> t]
Datetime(t) == [repr |-> "datetime", t |-> t]

dict_update(d, other) ==
    {p \in d : ~(\E q \in other : q[1] = p[1])} \cup other

\* d.get(k) is truthy
dict_truthy(d, k) == \E p \in d : p[1] = k /\ p[2] # ""

Put(devs, id, rec) ==
    [d \in (DOMAIN devs) \cup {id} |-> IF d = id THEN rec ELSE devs[d]]

\* a removal that removes nothing
Del_nothing(devs, ids) == devs

Del(devs, ids) == [d \in (DOMAIN devs) \ ids |-> devs[d]]

\* -------------------------------------------------------------- tokens
Token(id, exp, sig) == [device_id |-> id, exp |-> exp, sig |-> sig]

_generate_token(device_id, t) ==
    Token(device_id, t + TokenExpiryHours * Hour, TRUE)

\* jwt_decode with the exp claim not verified
jwt_decode_noexp(tok, t) ==
    IF ~tok.sig THEN "InvalidTokenError" ELSE "ok"

jwt_decode(tok, t) ==
    IF ~tok.sig THEN "InvalidTokenError"
    ELSE IF tok.exp <= t THEN "ExpiredSignatureError"
    ELSE "ok"

\* the tokens a caller can present: every token the authority signed, and a
\* forged one, whose signature does not verify
PresentableTokens ==
    {Token(p[1], p[2], TRUE) : p \in issued}
        \cup {Token("dev-1", now + TokenExpiryHours * Hour, FALSE)}

NoToken == Token("", 0, FALSE)
\* the Authorization header: absent, without a second word, or Bearer <token>
AuthInputs ==
    { [kind |-> "missing", tok |-> NoToken],
      [kind |-> "malformed", tok |-> NoToken] }
        \cup {[kind |-> "bearer", tok |-> t] : t \in PresentableTokens}
NoAuth == [kind |-> "none", tok |-> NoToken]
Bearer(tok) == [kind |-> "bearer", tok |-> tok]

\* -------------------------------------------------------- TokenManager
\* register_device leaving the metadata of an existing record as it was
register_device_keeps_metadata(devs, device_id, metadata, t) ==
    LET md == IF metadata.none THEN {} ELSE metadata.dict
        devs2 == IF device_id \in DOMAIN devs
                 THEN [devs EXCEPT ![device_id].last_seen = Epoch(t)]
                 ELSE Put(devs, device_id,
                          [device_id |-> device_id,
                           metadata |-> md,
                           last_seen |-> Epoch(t)])
    IN [devices |-> devs2, token |-> _generate_token(device_id, t)]

\* register_device writing the epoch itself as last_seen of a record it
\* updates in place
register_device_zero_last_seen(devs, device_id, metadata, t) ==
    LET md == IF metadata.none THEN {} ELSE metadata.dict
        devs2 == IF device_id \in DOMAIN devs
                 THEN [devs EXCEPT ![device_id].metadata = md,
                                   ![device_id].last_seen = Epoch(0)]
                 ELSE Put(devs, device_id,
                          [device_id |-> device_id,
                           metadata |-> md,
                           last_seen |-> Epoch(t)])
    IN [devices |-> devs2, token |-> _generate_token(device_id, t)]

register_device(devs, device_id, metadata, t) ==
    LET md == IF metadata.none THEN {} ELSE metadata.dict
        devs2 == IF device_id \in DOMAIN devs
                 THEN [devs EXCEPT ![device_id].metadata = md,
                                   ![device_id].last_seen = Epoch(t)]
                 ELSE Put(devs, device_id,
                          [device_id |-> device_id,
                           metadata |-> md,
                           last_seen |-> Epoch(t)])
    IN [devices |-> devs2, token |-> _generate_token(device_id, t)]

\* validate_token without the look-up of the subject in the directory
validate_token_nomember(devs, tok, t) ==
    IF jwt_decode(tok, t) # "ok" \/ tok.device_id = ""
    THEN [ok |-> FALSE, device_id |-> "", devices |-> devs]
    ELSE [ok |-> TRUE, device_id |-> tok.device_id,
          devices |-> IF tok.device_id \in DOMAIN devs
                      THEN [devs EXCEPT ![tok.device_id].last_seen = Epoch(t)]
                      ELSE devs]

\* validate_token touching last_seen of the named record before it decodes
validate_token_touches_first(devs, tok, t) ==
    LET touched == IF tok.device_id \in DOMAIN devs
                   THEN [devs EXCEPT ![tok.device_id].last_seen = Epoch(t)]
                   ELSE devs
    IN IF jwt_decode(tok, t) # "ok" \/ tok.device_id \notin DOMAIN devs
          \/ tok.device_id = ""
       THEN [ok |-> FALSE, device_id |-> "", devices |-> touched]
       ELSE [ok |-> TRUE, device_id |-> tok.device_id, devices |-> touched]

\* returns the record of the subject (ok, device_id) or None (~ok)
validate_token(devs, tok, t) ==
    IF jwt_decode(tok, t) # "ok"
    THEN [ok |-> FALSE, device_id |-> "", devices |-> devs]
    ELSE IF tok.device_id = "" \/ tok.device_id \notin DOMAIN devs
    THEN [ok |-> FALSE, device_id |-> "", devices |-> devs]
    ELSE [ok |-> TRUE, device_id |-> tok.device_id,
          devices |-> [devs EXCEPT ![tok.device_id].last_seen = Epoch(t)]]

get_device_info(devs, device_id) == device_id \in DOMAIN devs

\* update_device_metadata creating the record of an id it does not find
update_device_metadata_upserts(devs, device_id, metadata, t) ==
    IF device_id \notin DOMAIN devs
    THEN [ok |-> TRUE,
          devices |-> Put(devs, device_id,
                          [device_id |-> device_id, metadata |-> metadata,
                           last_seen |-> Epoch(t)])]
    ELSE [ok |-> TRUE,
          devices |-> [devs EXCEPT
              ![device_id].metadata = dict_update(devs[device_id].metadata, metadata),
              ![device_id].last_seen = Epoch(t)]]

update_device_metadata(devs, device_id, metadata, t) ==
    IF device_id \notin DOMAIN devs
    THEN [ok |-> FALSE, devices |-> devs]
    ELSE [ok |-> TRUE,
          devices |-> [devs EXCEPT
              ![device_id].metadata = dict_update(devs[device_id].metadata, metadata),
              ![device_id].last_seen = Epoch(t)]]

\* revoke_device answering True without removing the record
revoke_device_keeps(devs, device_id) ==
    IF device_id \notin DOMAIN devs
    THEN [ok |-> FALSE, devices |-> devs]
    ELSE [ok |-> TRUE, devices |-> devs]

\* revoke_device answering True for an id the directory does not hold
revoke_device_always(devs, device_id) ==
    [ok |-> TRUE, devices |-> Del(devs, {device_id})]

revoke_device(devs, device_id) ==
    IF device_id \notin DOMAIN devs
    THEN [ok |-> FALSE, devices |-> devs]
    ELSE [ok |-> TRUE, devices |-> Del(devs, {device_id})]

\* current_time - info["last_seen"] raises TypeError when last_seen is a
\* datetime object; the comprehension then removes nothing
cleanup_expired_devices(devs, max_age_hours, t) ==
    IF \E d \in DOMAIN devs : devs[d].last_seen.repr # "epoch"
    THEN [raised |-> TRUE, count |-> 0, devices |-> devs]
    ELSE LET expired_devices ==
                 {d \in DOMAIN devs :
                     t - devs[d].last_seen.t > max_age_hours * Hour}
         IN [raised |-> FALSE,
             count |-> Cardinality(expired_devices),
             devices |-> Del(devs, expired_devices)]

\* ------------------------------------------------------------ state file
\* the state file: absent, unreadable as JSON (cut short, or not JSON at
\* all), or the JSON text of a directory
EmptyDirectory == [d \in {} |-> 0]
MissingFile == [kind |-> "missing", value |-> EmptyDirectory]
MalformedFile == [kind |-> "malformed", value |-> EmptyDirectory]
JsonFile(value) == [kind |-> "json", value |-> value]

\* what json.dump writes for a record: last_seen, a float, is a JSON number
json_dump_record(rec) ==
    [device_id |-> rec.device_id, metadata |-> rec.metadata,
     last_seen |-> rec.last_seen.t]

\* what json.load returns for a record: a JSON number is a float
json_load_record(obj) ==
    [device_id |-> obj.device_id, metadata |-> obj.metadata,
     last_seen |-> Epoch(obj.last_seen)]

\* save_state writing the records without their metadata
save_state_drops_metadata(devs) ==
    [raised |-> "",
     file |-> JsonFile([d \in DOMAIN devs |->
                           [json_dump_record(devs[d]) EXCEPT !.metadata = {}]])]

\* save_state: open(filename, "w") empties the file and json.dump writes the
\* directory; a datetime in a record raises TypeError part-way through
save_state(devs) ==
    IF \E d \in DOMAIN devs : devs[d].last_seen.repr # "epoch"
    THEN [raised |-> "TypeError", file |-> MalformedFile]
    ELSE [raised |-> "",
          file |-> JsonFile([d \in DOMAIN devs |-> json_dump_record(devs[d])])]

\* load_state catching every exception
load_state_swallows(devs, file) ==
    IF file.kind = "json"
    THEN [raised |-> "",
          devices |-> [d \in DOMAIN file.value |->
                          json_load_record(file.value[d])]]
    ELSE [raised |-> "", devices |-> devs]

\* load_state: FileNotFoundError is logged and the directory is left as it
\* was; the error of json.load is not caught
load_state(devs, file) ==
    IF file.kind = "missing" THEN [raised |-> "", devices |-> devs]
    ELSE IF file.kind = "malformed"
    THEN [raised |-> "JSONDecodeError", devices |-> devs]
    ELSE [raised |-> "",
          devices |-> [d \in DOMAIN file.value |->
                          json_load_record(file.value[d])]]

\* ------------------------------------------------------ registry service
\* the module body of the registry service: a new TokenManager, then
\* load_state if the state file exists
registry_startup(file) ==
    IF file.kind # "missing"
    THEN load_state(EmptyDirectory, file)
    ELSE [raised |-> "", devices |-> EmptyDirectory]

\* the service was started without a state file and nothing was saved
DiskStart == [file |-> MissingFile, boot |-> "running", flip |-> FALSE]

\* verify_token passing on what validate_token returned, None included
verify_token_unchecked(devs, authorization, t) ==
    IF authorization.kind = "missing"
    THEN [status |-> 401, device_id |-> "", devices |-> devs]
    ELSE IF authorization.kind = "malformed"
    THEN [status |-> 401, device_id |-> "", devices |-> devs]
    ELSE LET device_info == validate_token(devs, authorization.tok, t)
         IN [status |-> 200, device_id |-> device_info.device_id,
             devices |-> device_info.devices]

\* verify_token, the dependency of every bearer-authenticated endpoint of the
\* registry: device_id is the subject whose record validate_token returned
verify_token(devs, authorization, t) ==
    IF authorization.kind = "missing"
    THEN [status |-> 401, device_id |-> "", devices |-> devs]
    ELSE IF authorization.kind = "malformed"
    THEN [status |-> 401, device_id |-> "", devices |-> devs]
    ELSE LET device_info == validate_token(devs, authorization.tok, t)
         IN IF ~device_info.ok
            THEN [status |-> 401, device_id |-> "", devices |-> devs]
            ELSE [status |-> 200, device_id |-> device_info.device_id,
                  devices |-> device_info.devices]

\* GET /device/{device_id} emptying the metadata of the record it returns
http_get_device_info_drops_metadata(devs, device_id, authorization, t) ==
    LET v == verify_token(devs, authorization, t)
    IN IF v.status # 200
       THEN [status |-> v.status, devices |-> v.devices, body |-> device_id]
       ELSE IF ~get_device_info(v.devices, device_id)
       THEN [status |-> 404, devices |-> v.devices, body |-> device_id]
       ELSE [status |-> 200, body |-> device_id,
             devices |-> [v.devices EXCEPT ![device_id].metadata = {}]]

\* GET /device/{device_id}: the response carries the record of the path's id
http_get_device_info(devs, device_id, authorization, t) ==
    LET v == verify_token(devs, authorization, t)
    IN IF v.status # 200
       THEN [status |-> v.status, devices |-> v.devices, body |-> device_id]
       ELSE IF ~get_device_info(v.devices, device_id)
       THEN [status |-> 404, devices |-> v.devices, body |-> device_id]
       ELSE [status |-> 200, devices |-> v.devices, body |-> device_id]

\* PUT /device/{device_id}/metadata
http_update_device_metadata(devs, device_id, metadata, authorization, t) ==
    LET v == verify_token(devs, authorization, t)
        u == update_device_metadata(v.devices, device_id, metadata, t)
    IN IF v.status # 200 THEN [status |-> v.status, devices |-> v.devices]
       ELSE IF v.device_id # device_id THEN [status |-> 403, devices |-> v.devices]
       ELSE IF ~u.ok THEN [status |-> 404, devices |-> v.devices]
       ELSE [status |-> 200, devices |-> u.devices]

\* DELETE /device/{device_id}
http_revoke_device(devs, device_id, authorization, t) ==
    LET v == verify_token(devs, authorization, t)
        r == revoke_device(v.devices, device_id)
    IN IF v.status # 200 THEN [status |-> v.status, devices |-> v.devices]
       ELSE IF v.device_id # device_id THEN [status |-> 403, devices |-> v.devices]
       ELSE IF ~r.ok THEN [status |-> 404, devices |-> v.devices]
       ELSE [status |-> 200, devices |-> r.devices]

\* POST /cleanup: {"removed_devices": count}; the TypeError of the sweep is
\* not caught and the service answers 500
http_cleanup_expired_devices(devs, authorization, t) ==
    LET v == verify_token(devs, authorization, t)
        c == cleanup_expired_devices(v.devices, DefaultMaxAgeHours, t)
    IN IF v.status # 200
       THEN [status |-> v.status, devices |-> v.devices, count |-> 0]
       ELSE IF c.raised
       THEN [status |-> 500, devices |-> v.devices, count |-> 0]
       ELSE [status |-> 200, devices |-> c.devices, count |-> c.count]

\* the try block of publish_data: the 404 raised for an id without a record
\* is caught by except Exception and answered 500; else last_seen becomes
\* datetime.now(), a datetime object, in the record the directory holds
publish_data_body(devs, device_id, t) ==
    IF ~get_device_info(devs, device_id)
    THEN [status |-> 500, devices |-> devs]
    ELSE [status |-> 200,
          devices |-> [devs EXCEPT ![device_id].last_seen = Datetime(t)]]

\* POST /device/{device_id}/data
http_publish_data(devs, device_id, authorization, t) ==
    LET v == verify_token(devs, authorization, t)
    IN IF v.status # 200 THEN [status |-> v.status, devices |-> v.devices]
       ELSE IF v.device_id # device_id THEN [status |-> 403, devices |-> v.devices]
       ELSE publish_data_body(v.devices, device_id, t)

\* GET /devices: datetime.fromtimestamp(info["last_seen"]) for every record;
\* it raises TypeError for a last_seen that is not a number
list_devices(devs) ==
    [raised |-> \E d \in DOMAIN devs : devs[d].last_seen.repr # "epoch",
     ids |-> DOMAIN devs]

\* ------------------------------------- role-aware TokenManager (variant)
\* src/cloud/registry/token_manager.py: records carry token, encrypted
\* metadata, last_seen, status and role; tokens carry a role claim
\* config["token_rotation"]["interval_hours"], read from the config file
IntervalHours == 1
RbacDeviceIds == {"dev-1", "dev-2"}
Permissions ==
    {"register_device", "deregister_device", "publish_data", "read_data",
     "manage_roles"}
\* the metadata argument of register_device: a DeviceMetadata whose created_at
\* and updated_at are datetime objects (what validation produces), or one
\* built with string timestamps
DeviceMetadataInputs ==
    { [repr |-> "model", url |-> Url, timestamps |-> "datetime"],
      [repr |-> "model", url |-> Url, timestamps |-> "str"] }

_initialize_roles ==
    [r \in {"admin", "device", "reader"} |->
        IF r = "admin" THEN Permissions
        ELSE IF r = "device" THEN {"publish_data", "read_data"}
        ELSE {"read_data"}]

\* Fernet.encrypt(metadata.json().encode()): bytes
_encrypt_sensitive_data(metadata) == [repr |-> "bytes", url |-> metadata.url]

RbacToken(id, role, iat, exp, url, sig) ==
    [device_id |-> id, role |-> role, iat |-> iat, exp |-> exp,
     url |-> url, sig |-> sig]
NoRbacToken == RbacToken("", "", 0, 0, "", FALSE)

\* _generate_token calls metadata.dict(), which bytes do not have
\* (AttributeError), and jwt.encode, whose json.dumps raises TypeError on the
\* datetime values of the metadata dict
rbac_generate_token(device_id, metadata, t) ==
    IF metadata.repr # "model"
    THEN [raised |-> "AttributeError", token |-> NoRbacToken]
    ELSE IF metadata.timestamps = "datetime"
    THEN [raised |-> "TypeError", token |-> NoRbacToken]
    ELSE [raised |-> "",
          token |-> RbacToken(device_id, "device", t, t + IntervalHours * Hour,
                              metadata.url, TRUE)]

rbac_register_device(devs, device_id, metadata, t) ==
    LET g == rbac_generate_token(device_id, metadata, t)
    IN IF g.raised # ""
       THEN [raised |-> g.raised, devices |-> devs, token |-> NoRbacToken]
       ELSE [raised |-> "",
             devices |-> Put(devs, device_id,
                             [token |-> g.token,
                              metadata |-> _encrypt_sensitive_data(metadata),
                              last_seen |-> t,
                              status |-> "active",
                              role |-> "device"]),
             token |-> g.token]

rbac_validate_token(devs, tok, t) ==
    IF jwt_decode(tok, t) # "ok" THEN [ok |-> FALSE, devices |-> devs]
    ELSE IF tok.device_id \notin DOMAIN devs THEN [ok |-> FALSE, devices |-> devs]
    ELSE IF devs[tok.device_id].status # "active"
    THEN [ok |-> FALSE, devices |-> devs]
    ELSE [ok |-> TRUE,
          devices |-> [devs EXCEPT ![tok.device_id].last_seen = t]]

\* the role claim of the decoded token is looked up in self.roles; the
\* directory is not consulted
check_permission(tok, required_permission, t) ==
    IF jwt_decode(tok, t) # "ok" THEN FALSE
    ELSE IF tok.role \notin DOMAIN _initialize_roles THEN FALSE
    ELSE required_permission \in _initialize_roles[tok.role]

\* returns None; ValueError for an id the directory does not hold
rbac_revoke_device(devs, device_id) ==
    IF device_id \in DOMAIN devs
    THEN [raised |-> "", devices |-> [devs EXCEPT ![device_id].status = "revoked"]]
    ELSE [raised |-> "ValueError", devices |-> devs]

\* one pass of the loop body of _rotate_tokens_periodically: the possible
\* outcomes.  The for loop visits the records in the dict's order, which the
\* model does not keep: when a visited active record raises, the active
\* records visited before it (any set of those that do not raise) are rotated
rotation_pass(devs, t) ==
    LET active == {d \in DOMAIN devs : devs[d].status = "active"}
        gen(d) == rbac_generate_token(d, devs[d].metadata, t)
        raising == {d \in active : gen(d).raised # ""}
        rotate(ds) == [d \in DOMAIN devs |->
                          IF d \in ds THEN [devs[d] EXCEPT !.token = gen(d).token]
                          ELSE devs[d]]
    IN IF raising = {}
       THEN {[failed |-> FALSE, devices |-> rotate(active), rotated |-> active]}
       ELSE {[failed |-> TRUE, devices |-> rotate(ds), rotated |-> ds] :
                ds \in SUBSET (active \ raising)}

\* the periodic task without its except clause: a failed pass ends the task
after_pass_uncaught(failed) == IF failed THEN "Terminated" ELSE "Sleeping"

\* where the periodic task is after a pass: except Exception logs the failure
\* and the while loop goes back to asyncio.sleep
after_pass(failed) == "Sleeping"

\* the task created by the constructor: asleep for one interval
RotationStart ==
    [pc |-> "Sleeping", wake |-> IntervalHours * Hour, at |-> 0,
     last |-> "none", resumed |-> FALSE]

\* --------------------------------------------------------- on-prem agent
\* max_retries of start()
MaxRetries == 5
\* the cap of the wait between two registration attempts, in seconds
BackoffCap == 30
\* the agent takes its token to expire timedelta(hours=1) after the answer
AgentTokenHours == 1
\* chunk_size of the constructor, in characters
ChunkSize == 2
\* DEVICE_ID of the agent
AgentDeviceId == "dev-1"
\* len(json.dumps(data)) of the payloads published: below and above chunk_size
PayloadLengths == {1, 2 * ChunkSize + 1}
\* the arguments of publish_data: data is a dict (or a list) unless the caller
\* passes a scalar
PublishInputs == [len : PayloadLengths, stream : BOOLEAN, container : BOOLEAN]
NoData == [len |-> 0, stream |-> FALSE, container |-> FALSE]
\* the status of the answer to POST /pubsub/publish
PublishStatuses == {200, 401}
\* a request to the cloud is answered by the service, answered with an error
\* status, or fails to connect
CloudStates == {"up", "erroring", "down"}

\* the POST /register of one call of register_and_get_token; an Optional is
\* the empty set (None) or a one-element set
NoCall == [phase |-> "none", answer |-> {}]
Posted == [phase |-> "posted", answer |-> {}]
Answered(tok) == [phase |-> "answered", answer |-> {tok}]

\* register_and_get_token dropping the credential when the request fails
register_and_get_token_clears(token, token_expiry, answer, t) ==
    IF answer # {}
    THEN [ok |-> TRUE, token |-> answer,
          token_expiry |-> {t + AgentTokenHours * Hour}]
    ELSE [ok |-> FALSE, token |-> {}, token_expiry |-> {}]

\* register_and_get_token storing the token of a 200 answer without its expiry
register_and_get_token_token_only(token, token_expiry, answer, t) ==
    IF answer # {}
    THEN [ok |-> TRUE, token |-> answer, token_expiry |-> token_expiry]
    ELSE [ok |-> FALSE, token |-> token, token_expiry |-> token_expiry]

\* register_and_get_token once its request has ended, at time t: answer is
\* the token of a 200 answer, or empty for any other status and for an
\* exception
register_and_get_token(token, token_expiry, answer, t) ==
    IF answer # {}
    THEN [ok |-> TRUE, token |-> answer,
          token_expiry |-> {t + AgentTokenHours * Hour}]
    ELSE [ok |-> FALSE, token |-> token, token_expiry |-> token_expiry]

\* a wait that doubles without a cap
backoff_uncapped(retry_count) == 2 ^ retry_count

\* wait_time = min(30, 2 ** retry_count)
backoff(retry_count) ==
    IF 2 ^ retry_count < BackoffCap THEN 2 ^ retry_count ELSE BackoffCap

\* start() going on to the steady-state loop whatever retry_count is
after_bootstrap_noraise(retry_count) == "Steady"

\* after the registration loop: raise when the retries are used up, else go
\* on to the steady-state loop
after_bootstrap(retry_count) ==
    IF retry_count >= MaxRetries THEN "Fatal" ELSE "Steady"

\* the test of the steady-state loop:
\* self.token_expiry and datetime.now() >= self.token_expiry
expiry_passed(token_expiry, t) == \E e \in token_expiry : t >= e

\* the test of publish_data with the expiry left out
needs_registration_ignores_expiry(token, token_expiry, t) == token = {}

\* the test of publish_data:
\* not self.token or datetime.now() >= self.token_expiry
needs_registration(token, token_expiry, t) ==
    \/ token = {}
    \/ \E e \in token_expiry : t >= e

\* the branch of publish_data: stream and isinstance(data, (dict, list))
publish_transport(data) ==
    IF data.stream /\ data.container THEN "chunked" ELSE "single"

\* the characters of a str: one that UTF-8 encodes in one byte, one that it
\* encodes in two, and a lone surrogate, which it does not encode
Chars == {"a", "e_acute", "lone_surrogate"}
\* a str is a sequence of characters, a bytes object a sequence of bytes
DataInputs == UNION {[1..n -> Chars] : n \in 0..MaxDataLen}

\* c.encode('utf-8') of one character; for a lone surrogate it raises
\* UnicodeEncodeError and has no value
utf8(c) ==
    CASE c = "a" -> <<97>>
      [] c = "e_acute" -> <<195, 169>>

\* text.encode('utf-8') returns (does not raise)
encodable(text) == \A k \in DOMAIN text : text[k] # "lone_surrogate"

RECURSIVE encode(_)
\* text.encode('utf-8') of an encodable text
encode(text) ==
    IF text = << >> THEN << >> ELSE utf8(Head(text)) \o encode(Tail(text))

\* a slice one character too long
chunk_overlapping(data, i, chunk_size) ==
    SubSeq(data, i + 1,
           IF i + chunk_size + 1 < Len(data)
           THEN i + chunk_size + 1 ELSE Len(data))

\* chunk = data[i:i + self.chunk_size], i counted from 0
chunk(data, i, chunk_size) ==
    SubSeq(data, i + 1,
           IF i + chunk_size < Len(data) THEN i + chunk_size ELSE Len(data))

\* range(0, len(data), self.chunk_size)
stream_offsets(data, chunk_size) ==
    [k \in 1..((Len(data) + chunk_size - 1) \div chunk_size) |->
        (k - 1) * chunk_size]

\* the fragments _stream_data yields for an encodable text when it is
\* iterated to its end
_stream_data(data, chunk_size) ==
    [k \in DOMAIN stream_offsets(data, chunk_size) |->
        encode(chunk(data, stream_offsets(data, chunk_size)[k], chunk_size))]

\* json.dumps(data) of a payload: ensure_ascii leaves ASCII characters only
json_dumps_text(len) == [k \in 1..len |-> "a"]

\* no generator was created
GenIdle ==
    [pc |-> "Idle", data |-> << >>, chunk_size |-> 1, i |-> 0,
     yielded |-> << >>]

\* start() is about to run; nothing was registered
AgentStart ==
    [pc |-> "Boot", retry_count |-> 0, attempts |-> 0,
     wait_time |-> 0, waited |-> 0, boot_ok |-> FALSE, last |-> "none",
     token |-> {}, token_expiry |-> {}, call |-> NoCall]

\* no publish_data call yet
PubIdle ==
    [pc |-> "Idle", data |-> NoData, entry |-> "", regs |-> 0, requests |-> 0,
     call |-> NoCall, call_ok |-> FALSE, obtained |-> {}, bearer |-> {},
     transport |-> "", fragments |-> << >>, result |-> "none"]

\* the main task after its call of register_and_get_token returned res
main_after_register(a, res) ==
    LET b == [a EXCEPT !.token = res.token,
                       !.token_expiry = res.token_expiry,
                       !.call = NoCall,
                       !.last = IF res.ok THEN "true" ELSE "false"]
    IN IF a.pc = "BootCall"
       THEN IF res.ok
            THEN [b EXCEPT !.pc = after_bootstrap(a.retry_count),
                           !.boot_ok = TRUE]
            ELSE [b EXCEPT !.pc = "Boot",
                           !.retry_count = a.retry_count + 1,
                           !.wait_time = backoff(a.retry_count + 1),
                           !.waited = a.waited + backoff(a.retry_count + 1)]
       ELSE [b EXCEPT !.pc = "Steady"]

\* publish_data from the headers to the POST /pubsub/publish it issues
publish_request(p, token) ==
    [p EXCEPT !.pc = "Sent",
              !.requests = p.requests + 1,
              !.bearer = token,
              !.transport = publish_transport(p.data),
              !.fragments =
                  IF publish_transport(p.data) = "chunked"
                  THEN LET f == _stream_data(json_dumps_text(p.data.len),
                                             ChunkSize)
                       IN [k \in DOMAIN f |-> Len(f[k])]
                  ELSE << >>]

\* ---------------------------------------------------------------- state
\* no downstream response yet, no response to the caller yet
NoDownstream == [status |-> 0, headers |-> << >>, body |-> ""]
NoResponse == [status_code |-> 0, headers |-> {}, content |-> ""]
\* no inbound request yet, no outbound request yet
NoRequest ==
    [method |-> "", endpoint |-> "", headers |-> << >>, body |-> "",
     client_host |-> ""]
NoOutbound == [method |-> "", url |-> << >>, headers |-> {}, data |-> ""]

IdleForward ==
    [pc |-> "Idle", path |-> "", auth |-> NoAuth,
     request |-> NoRequest, sent |-> NoOutbound,
     info_id |-> "", info_metadata |-> {},
     validated |-> FALSE, stale |-> FALSE, rereg |-> FALSE,
     outbound |-> 0, status |-> 0,
     detail |-> << >>, downstream |-> NoDownstream, response |-> NoResponse]

InitBase ==
    /\ now = 0
    /\ devices = [d \in {} |-> 0]
    /\ issued = {}
    /\ reg = {}
    /\ revoked = {}
    /\ preRevoke = {}
    /\ fwd = IdleForward
    /\ registered_devices = [d \in {} |-> 0]
    /\ minted = {}
    /\ rotation = RotationStart
    /\ agent = AgentStart
    /\ pub = PubIdle
    /\ cloud = "up"
    /\ disk = DiskStart

Init == InitBase /\ strm = GenIdle

Tick(horizon) ==
    /\ now < horizon
    /\ now' = now + 1
    /\ UNCHANGED <<otherVars, devices, issued, reg, revoked, preRevoke, fwd>>

\* a client sends POST /register {device_id, metadata}
SendRegister(device_id, metadata) ==
    /\ reg = {}
    /\ reg' = {[device_id |-> device_id, metadata |-> metadata,
                overtaken |-> FALSE]}
    /\ UNCHANGED <<otherVars, now, devices, issued, revoked, preRevoke, fwd>>

\* POST /register reaches the registry
RegisterDevice ==
    \E r \in reg :
        LET result == register_device(devices, r.device_id, r.metadata, now)
        IN /\ devices' = result.devices
           /\ issued' = issued \cup {<<result.token.device_id, result.token.exp>>}
           /\ reg' = {}
           /\ revoked' = revoked \ {r.device_id}
           /\ fwd' = IF fwd.pc # "Idle" /\ fwd.path = r.device_id
                     THEN [fwd EXCEPT !.rereg = TRUE] ELSE fwd
           /\ preRevoke' = preRevoke \ {<<result.token.device_id, result.token.exp>>}
           /\ UNCHANGED <<now, otherVars>>

\* TokenManager.validate_token called on its own
ValidateToken(tok) ==
    LET res == validate_token(devices, tok, now)
    IN /\ devices' = res.devices
       /\ UNCHANGED <<otherVars, now, issued, reg, revoked, preRevoke, fwd>>

GetDeviceInfo(device_id, authorization) ==
    LET res == http_get_device_info(devices, device_id, authorization, now)
    IN /\ devices' = res.devices
       /\ UNCHANGED <<otherVars, now, issued, reg, revoked, preRevoke, fwd>>

UpdateDeviceMetadata(device_id, metadata, authorization) ==
    LET res == http_update_device_metadata(devices, device_id, metadata,
                                           authorization, now)
    IN /\ devices' = res.devices
       /\ UNCHANGED <<otherVars, now, issued, reg, revoked, preRevoke, fwd>>

RevokeDevice(device_id, authorization) ==
    LET res == http_revoke_device(devices, device_id, authorization, now)
    IN /\ devices' = res.devices
       /\ revoked' = IF res.status = 200 THEN revoked \cup {device_id} ELSE revoked
       /\ preRevoke' = IF res.status = 200
                       THEN preRevoke \cup {p \in issued : p[1] = device_id}
                       ELSE preRevoke
       /\ reg' = IF res.status = 200
                 THEN {IF q.device_id = device_id
                       THEN [q EXCEPT !.overtaken = TRUE] ELSE q : q \in reg}
                 ELSE reg
       /\ UNCHANGED <<otherVars, now, issued, fwd>>

CleanupEndpoint(authorization) ==
    LET res == http_cleanup_expired_devices(devices, authorization, now)
    IN /\ devices' = res.devices
       /\ UNCHANGED <<otherVars, now, issued, reg, revoked, preRevoke, fwd>>

\* TokenManager.cleanup_expired_devices(max_age_hours) called on its own
CleanupExpiredDevices(max_age_hours) ==
    LET c == cleanup_expired_devices(devices, max_age_hours, now)
    IN /\ devices' = c.devices
       /\ UNCHANGED <<otherVars, now, issued, reg, revoked, preRevoke, fwd>>

PublishData(device_id, authorization) ==
    LET res == http_publish_data(devices, device_id, authorization, now)
    IN /\ devices' = res.devices
       /\ UNCHANGED <<otherVars, now, issued, reg, revoked, preRevoke, fwd>>

\* the operations of the directory: register, validate, read, update,
\* revoke and sweep
DirectoryNext(ids) ==
    \/ \E d \in ids, m \in MetadataInputs : SendRegister(d, m)
    \/ RegisterDevice
    \/ \E t \in PresentableTokens : ValidateToken(t)
    \/ \E d \in PathIds, a \in AuthInputs : GetDeviceInfo(d, a)
    \/ \E d \in PathIds, m \in UpdateInputs, a \in AuthInputs :
           UpdateDeviceMetadata(d, m, a)
    \/ \E d \in PathIds, a \in AuthInputs : RevokeDevice(d, a)
    \/ \E a \in AuthInputs : CleanupEndpoint(a)
    \/ \E h \in MaxAgeInputs : CleanupExpiredDevices(h)

RegistryNext(ids) ==
    \/ DirectoryNext(ids)
    \/ \E d \in PathIds, a \in AuthInputs : PublishData(d, a)

Next == Tick(MaxTime) \/ RegistryNext(DeviceIds)

Spec == Init /\ [][Next]_vars

\* ------------------------------------------------------ forwarding gateway
\* verify_token of the gateway up to its request to the registry: 401, or 0
\* when the token decodes and names a device id to look up
gateway_verify_token(authorization, t) ==
    IF authorization.kind = "missing" THEN 401
    ELSE IF authorization.kind = "malformed" THEN 401
    ELSE IF jwt_decode(authorization.tok, t) # "ok" THEN 401
    ELSE IF authorization.tok.device_id = "" THEN 401
    ELSE 0

\* forward_request without the comparison of the subject with the path
forward_request_checks_no403(info_id, info_metadata, device_id) ==
    IF ~dict_truthy(info_metadata, "url") THEN 400 ELSE 0

\* forward_request without the test of the configured URL
forward_request_checks_no400(info_id, info_metadata, device_id) ==
    IF info_id # device_id THEN 403 ELSE 0

\* forward_request testing the configured URL before the subject
forward_request_checks_url_first(info_id, info_metadata, device_id) ==
    IF ~dict_truthy(info_metadata, "url") THEN 400
    ELSE IF info_id # device_id THEN 403
    ELSE 0

\* the checks of forward_request before it builds the outbound request:
\* 403, 400, or 0 when the request may go out
forward_request_checks(info_id, info_metadata, device_id) ==
    IF info_id # device_id THEN 403
    ELSE IF ~dict_truthy(info_metadata, "url") THEN 400
    ELSE 0

\* dict(response.headers): one item per name, with the first value received
headers_dict(headers) ==
    {headers[i] : i \in {j \in DOMAIN headers :
                            \A k \in DOMAIN headers :
                                headers[k][1] = headers[j][1] => j <= k}}

\* request.headers.items(): the Authorization line the bearer scheme read,
\* and the other lines
request_headers_items(request, authorization) ==
    IF authorization.kind = "bearer"
    THEN << <<"authorization", authorization.tok>> >> \o request.headers
    ELSE request.headers

\* str(request.url) of the inbound request
request_url(device_id, endpoint) == <<"/forward/", device_id, "/", endpoint>>

\* the headers of the outbound request: a dict comprehension over the header
\* lines without content-length (a later line of a name replaces an earlier
\* one), then the two forwarding headers
outbound_headers(items, client_host, url) ==
    dict_update(
        {items[i] : i \in {j \in DOMAIN items :
                              /\ items[j][1] # "content-length"
                              /\ \A k \in DOMAIN items :
                                     items[k][1] = items[j][1] => k <= j}},
        {<<"X-Forwarded-For", client_host>>, <<"X-Original-URI", url>>})

\* f"{device_url}/{endpoint}"
outbound_url(info_metadata, endpoint) ==
    <<(CHOOSE p \in info_metadata : p[1] = "url")[2], "/", endpoint>>

\* the arguments of session.request
outbound_request(request, authorization, device_id, info_metadata) ==
    [method |-> request.method,
     url |-> outbound_url(info_metadata, request.endpoint),
     headers |-> outbound_headers(
                     request_headers_items(request, authorization),
                     request.client_host,
                     request_url(device_id, request.endpoint)),
     data |-> request.body]

\* the Response built from the downstream response
gateway_response(resp) ==
    [status_code |-> resp.status,
     headers |-> headers_dict(resp.headers),
     content |-> resp.body]

\* the except clauses of forward_request with every exception answered 502
forward_request_except_all502(exc) ==
    [status |-> 502, detail |-> <<"Error forwarding request: ", exc>>]

\* the except clauses of forward_request: asyncio.TimeoutError is 504, any
\* other exception is 502 with str(e) in the detail
forward_request_except(exc) ==
    IF exc = "asyncio.TimeoutError"
    THEN [status |-> 504, detail |-> <<"Request timed out">>]
    ELSE [status |-> 502, detail |-> <<"Error forwarding request: ", exc>>]

Terminal == {"Rejected", "Completed", "TimedOut", "Failed"}

\* POST /forward/{device_id}/{endpoint} arrives at the gateway
FwdReceive(device_id, authorization) ==
    /\ fwd.pc \in Terminal \cup {"Idle"}
    /\ fwd' = [IdleForward EXCEPT
                  !.pc = "Received",
                  !.path = device_id,
                  !.auth = authorization,
                  !.stale = /\ authorization.kind = "bearer"
                            /\ authorization.tok.sig
                            /\ authorization.tok.device_id = device_id
                            /\ <<device_id, authorization.tok.exp>> \in preRevoke,
                  !.rereg = device_id \notin revoked]
    /\ UNCHANGED <<otherVars, now, devices, issued, reg, revoked, preRevoke>>

\* the gateway reads the header and decodes the token
FwdVerify ==
    /\ fwd.pc = "Received"
    /\ fwd' = IF gateway_verify_token(fwd.auth, now) = 0
              THEN [fwd EXCEPT !.pc = "Verifying"]
              ELSE [fwd EXCEPT !.pc = "Rejected", !.status = 401]
    /\ UNCHANGED <<otherVars, now, devices, issued, reg, revoked, preRevoke>>

\* the registry serves the gateway's GET /device/{subject} and the gateway
\* reads the answer: any status but 200 is a 401 of the gateway
FwdRegistry ==
    /\ fwd.pc = "Verifying"
    /\ LET subject == fwd.auth.tok.device_id
           res == http_get_device_info(devices, subject, fwd.auth, now)
       IN /\ devices' = res.devices
          /\ fwd' = IF res.status = 200
                    THEN [fwd EXCEPT
                             !.pc = "Authenticated",
                             !.validated = TRUE,
                             !.info_id = res.devices[res.body].device_id,
                             !.info_metadata = res.devices[res.body].metadata]
                    ELSE [fwd EXCEPT !.pc = "Rejected", !.status = 401]
    /\ UNCHANGED <<otherVars, now, issued, reg, revoked, preRevoke>>

\* the registry cannot be reached: the client error is caught as a 401
FwdRegistryUnreachable ==
    /\ fwd.pc = "Verifying"
    /\ fwd' = [fwd EXCEPT !.pc = "Rejected", !.status = 401]
    /\ UNCHANGED <<otherVars, now, devices, issued, reg, revoked, preRevoke>>

\* the body of forward_request up to the resolved target
FwdAuthorize ==
    /\ fwd.pc = "Authenticated"
    /\ LET c == forward_request_checks(fwd.info_id, fwd.info_metadata, fwd.path)
       IN fwd' = IF c = 0
                 THEN [fwd EXCEPT !.pc = "Resolved"]
                 ELSE [fwd EXCEPT !.pc = "Rejected", !.status = c]
    /\ UNCHANGED <<otherVars, now, devices, issued, reg, revoked, preRevoke>>

\* a forward that issues session.request(...) again after a timeout or a
\* failure
FwdConnect_retrying(request) ==
    /\ fwd.pc \in {"Resolved", "TimedOut", "Failed"}
    /\ fwd.outbound <= 1
    /\ fwd' = [fwd EXCEPT !.pc = "Streaming", !.outbound = fwd.outbound + 1]
    /\ UNCHANGED <<otherVars, now, devices, issued, reg, revoked, preRevoke>>

\* the handler reads the header lines and the body of the inbound request,
\* builds the outbound request and issues session.request(...) to the
\* device target
FwdConnect(request) ==
    /\ fwd.pc = "Resolved"
    /\ fwd' = [fwd EXCEPT
                  !.pc = "Streaming",
                  !.outbound = fwd.outbound + 1,
                  !.request = request,
                  !.sent = outbound_request(request, fwd.auth, fwd.path,
                                            fwd.info_metadata)]
    /\ UNCHANGED <<otherVars, now, devices, issued, reg, revoked, preRevoke>>

\* building the outbound request raises (the CA bundle cannot be loaded, the
\* inbound body cannot be read): except Exception answers 502
FwdSetupError(exc) ==
    /\ fwd.pc = "Resolved"
    /\ fwd' = [fwd EXCEPT !.pc = "Failed",
                          !.status = forward_request_except(exc).status,
                          !.detail = forward_request_except(exc).detail]
    /\ UNCHANGED <<otherVars, now, devices, issued, reg, revoked, preRevoke>>

\* the device target answers: its status is the gateway's status; the
\* request objects of the handler end with it
FwdResponse(resp) ==
    /\ fwd.pc = "Streaming"
    /\ fwd' = [fwd EXCEPT !.pc = "Completed",
                          !.request = NoRequest, !.sent = NoOutbound,
                          !.status = gateway_response(resp).status_code,
                          !.downstream = resp,
                          !.response = gateway_response(resp)]
    /\ UNCHANGED <<otherVars, now, devices, issued, reg, revoked, preRevoke>>

\* ClientTimeout(total=3600) expires: asyncio.TimeoutError
FwdTimeout ==
    /\ fwd.pc = "Streaming"
    /\ LET e == forward_request_except("asyncio.TimeoutError")
       IN fwd' = [fwd EXCEPT
                     !.pc = "TimedOut",
                     !.request = NoRequest, !.sent = NoOutbound,
                     !.status = e.status,
                     !.detail = e.detail]
    /\ UNCHANGED <<otherVars, now, devices, issued, reg, revoked, preRevoke>>

\* any other error of the connection or the transfer
FwdTransportError(exc) ==
    /\ fwd.pc = "Streaming"
    /\ fwd' = [fwd EXCEPT !.pc = "Failed",
                          !.request = NoRequest, !.sent = NoOutbound,
                          !.status = forward_request_except(exc).status,
                          !.detail = forward_request_except(exc).detail]
    /\ UNCHANGED <<otherVars, now, devices, issued, reg, revoked, preRevoke>>

GatewayNext ==
    \/ \E d \in PathIds, a \in AuthInputs : FwdReceive(d, a)
    \/ FwdVerify
    \/ FwdRegistry
    \/ FwdRegistryUnreachable
    \/ FwdAuthorize
    \/ \E r \in InboundRequests : FwdConnect(r)
    \/ \E exc \in SetupErrors : FwdSetupError(exc)
    \/ \E resp \in DownstreamResponses : FwdResponse(resp)
    \/ FwdTimeout
    \/ \E exc \in TransportErrors : FwdTransportError(exc)

NextGateway == Tick(GwMaxTime) \/ RegistryNext(GwDeviceIds) \/ GatewayNext

SpecGateway == Init /\ [][NextGateway]_vars

\* ------------------------------------- role-aware TokenManager: actions
\* the tokens a caller can present to the role-aware TokenManager: those it
\* signed, and a forged one
RbacPresentableTokens ==
    minted \cup {RbacToken("dev-1", "admin", now, now + IntervalHours * Hour,
                           Url, FALSE)}

RbacRegister(device_id, metadata) ==
    LET res == rbac_register_device(registered_devices, device_id, metadata, now)
    IN /\ registered_devices' = res.devices
       /\ minted' = IF res.raised = "" THEN minted \cup {res.token} ELSE minted
       /\ UNCHANGED <<now, strm, coreVars, agentVars, rotation>>

RbacValidate(tok) ==
    /\ registered_devices' = rbac_validate_token(registered_devices, tok, now).devices
    /\ UNCHANGED <<now, strm, coreVars, agentVars, minted, rotation>>

RbacRevoke(device_id) ==
    /\ registered_devices' = rbac_revoke_device(registered_devices, device_id).devices
    /\ UNCHANGED <<now, strm, coreVars, agentVars, minted, rotation>>

\* asyncio.sleep(interval_hours * 3600) has returned: the task runs one pass
\* (the for loop never awaits) and sleeps again
RotationPass ==
    /\ rotation.pc = "Sleeping"
    /\ now >= rotation.wake
    /\ \E out \in rotation_pass(registered_devices, now) :
          /\ registered_devices' = out.devices
          /\ minted' = minted \cup {out.devices[d].token : d \in out.rotated}
          /\ rotation' = [pc |-> after_pass(out.failed),
                          wake |-> now + IntervalHours * Hour,
                          at |-> now,
                          last |-> IF out.failed THEN "failed" ELSE "ok",
                          resumed |-> rotation.last = "failed"]
    /\ UNCHANGED <<now, strm, coreVars, agentVars>>

RbacNext ==
    \/ \E d \in RbacDeviceIds, m \in DeviceMetadataInputs : RbacRegister(d, m)
    \/ \E t \in RbacPresentableTokens : RbacValidate(t)
    \/ \E d \in RbacDeviceIds : RbacRevoke(d)
    \/ RotationPass

NextRbac == Tick(RbacMaxTime) \/ RbacNext

SpecRbac == Init /\ [][NextRbac]_vars

\* ------------------------------------------- the registry with two devices
PeerDeviceIds == {"dev-1", "dev-2"}

NextPeers == Tick(PeersMaxTime) \/ RegistryNext(PeerDeviceIds)

SpecPeers == Init /\ [][NextPeers]_vars

\* ------------------------------------------------ state file: actions
\* the id the clients of this specification register with
PersistDeviceIds == {"dev-1"}

\* TokenManager.save_state(state_file) on the running service
SaveState ==
    /\ disk.boot # "failed"
    /\ disk' = [disk EXCEPT !.file = save_state(devices).file]
    /\ UNCHANGED <<now, strm, devices, issued, reg, revoked, preRevoke, fwd,
                   rbacVars, agentVars>>

\* the state file is removed, or left unreadable by a write cut short
FileChange(file) ==
    /\ disk.file # file
    /\ disk' = [disk EXCEPT !.file = file]
    /\ UNCHANGED <<now, strm, devices, issued, reg, revoked, preRevoke, fwd,
                   rbacVars, agentVars>>

\* the registry service is started again: the module body runs, and an
\* exception it raises ends the process; a request in flight is lost
Restart ==
    /\ LET res == registry_startup(disk.file)
       IN /\ devices' = IF res.raised = "" THEN res.devices
                         ELSE EmptyDirectory
          /\ disk' = [disk EXCEPT
                         !.boot = IF res.raised # "" THEN "failed"
                                  ELSE IF disk.file.kind = "json"
                                  THEN "restored" ELSE "running",
                         !.flip = ~disk.flip]
    /\ reg' = {}
    /\ UNCHANGED <<now, strm, issued, revoked, preRevoke, fwd, rbacVars,
                   agentVars>>

PersistNext ==
    \/ SaveState
    \/ \E file \in {MissingFile, MalformedFile} : FileChange(file)
    \/ Restart

\* the service serves requests while its process runs
NextPersist ==
    \/ Tick(PersistMaxTime)
    \/ disk.boot # "failed" /\ DirectoryNext(PersistDeviceIds)
    \/ PersistNext

SpecPersist == Init /\ [][NextPersist]_vars

\* ------------------------------------------------- on-prem agent: actions
\* a request to the cloud meets another condition
CloudChange(c) ==
    /\ c # cloud
    /\ cloud' = c
    /\ UNCHANGED <<now, strm, coreVars, rbacVars, agent, pub>>

\* the registry serves the POST /register {"device_id": ...} of the main task
\* ("main") or of publish_data ("publish"): the body carries no metadata
RegistryServesAgent(caller) ==
    /\ cloud = "up"
    /\ (IF caller = "main" THEN agent.call ELSE pub.call).phase = "posted"
    /\ LET result == register_device(devices, AgentDeviceId,
                                     [none |-> TRUE, dict |-> {}], now)
           payload == <<result.token.device_id, result.token.exp>>
       IN /\ devices' = result.devices
          /\ issued' = issued \cup {payload}
          /\ revoked' = revoked \ {AgentDeviceId}
          /\ preRevoke' = preRevoke \ {payload}
          /\ agent' = IF caller = "main"
                      THEN [agent EXCEPT !.call = Answered(result.token)]
                      ELSE agent
          /\ pub' = IF caller = "publish"
                    THEN [pub EXCEPT !.call = Answered(result.token)]
                    ELSE pub
    /\ UNCHANGED <<now, strm, reg, fwd, rbacVars, cloud, disk>>

\* the request of a call cannot end with a 200 answer: an error status
\* answers it, or the connection fails before the answer is read
CallFails(call) ==
    \/ call.phase = "posted" /\ cloud = "erroring"
    \/ call.phase \in {"posted", "answered"} /\ cloud = "down"

\* start(): while retry_count < max_retries, call register_and_get_token
AgentBootAttempt ==
    /\ agent.pc = "Boot"
    /\ agent.retry_count < MaxRetries
    /\ agent' = [agent EXCEPT !.pc = "BootCall", !.call = Posted,
                              !.attempts = agent.attempts + 1]
    /\ UNCHANGED <<now, strm, coreVars, rbacVars, pub, cloud>>

\* start(): the loop ends with the retries used up
AgentBootExhausted ==
    /\ agent.pc = "Boot"
    /\ ~(agent.retry_count < MaxRetries)
    /\ agent' = [agent EXCEPT !.pc = after_bootstrap(agent.retry_count)]
    /\ UNCHANGED <<now, strm, coreVars, rbacVars, pub, cloud>>

\* the main task reads the 200 answer: register_and_get_token returns True
AgentRegistered ==
    /\ agent.pc \in {"BootCall", "SteadyCall"}
    /\ agent.call.phase = "answered"
    /\ agent' = main_after_register(agent,
                    register_and_get_token(agent.token, agent.token_expiry,
                                           agent.call.answer, now))
    /\ UNCHANGED <<now, strm, coreVars, rbacVars, pub, cloud>>

\* the request of the main task fails: register_and_get_token returns False;
\* in the registration loop the task then sleeps wait_time seconds
AgentRegisterFails ==
    /\ agent.pc \in {"BootCall", "SteadyCall"}
    /\ CallFails(agent.call)
    /\ agent' = main_after_register(agent,
                    register_and_get_token(agent.token, agent.token_expiry,
                                           {}, now))
    /\ UNCHANGED <<now, strm, coreVars, rbacVars, pub, cloud>>

\* the steady-state loop wakes from asyncio.sleep(60) and finds the expiry
\* passed: it calls register_and_get_token
AgentCheck ==
    /\ agent.pc = "Steady"
    /\ expiry_passed(agent.token_expiry, now)
    /\ agent' = [agent EXCEPT !.pc = "SteadyCall", !.call = Posted]
    /\ UNCHANGED <<now, strm, coreVars, rbacVars, pub, cloud>>

AgentMainNext ==
    \/ AgentBootAttempt
    \/ AgentBootExhausted
    \/ RegistryServesAgent("main")
    \/ AgentRegistered
    \/ AgentRegisterFails
    \/ AgentCheck

\* publish_data(data, stream) is called: it registers first, or goes on to
\* the request with the token it holds
AgentPublish(data) ==
    /\ pub.pc \in {"Idle", "Done"}
    /\ LET p == [PubIdle EXCEPT
                    !.data = data,
                    !.entry = IF agent.token = {} THEN "none"
                              ELSE IF \E e \in agent.token_expiry : now >= e
                              THEN "expired" ELSE "valid"]
       IN pub' = IF needs_registration(agent.token, agent.token_expiry, now)
                 THEN [p EXCEPT !.pc = "Call", !.call = Posted, !.regs = 1]
                 ELSE publish_request(p, agent.token)
    /\ UNCHANGED <<now, strm, coreVars, rbacVars, agent, cloud>>

\* publish_data reads the 200 answer of its registration and goes on to the
\* request; no await separates the two
PubRegistered ==
    /\ pub.pc = "Call"
    /\ pub.call.phase = "answered"
    /\ LET res == register_and_get_token(agent.token, agent.token_expiry,
                                         pub.call.answer, now)
       IN /\ agent' = [agent EXCEPT !.token = res.token,
                                    !.token_expiry = res.token_expiry]
          /\ pub' = publish_request(
                        [pub EXCEPT !.call = NoCall, !.call_ok = TRUE,
                                    !.obtained = pub.call.answer],
                        res.token)
    /\ UNCHANGED <<now, strm, coreVars, rbacVars, cloud>>

\* the registration of publish_data fails: publish_data returns False
PubRegisterFails ==
    /\ pub.pc = "Call"
    /\ CallFails(pub.call)
    /\ LET res == register_and_get_token(agent.token, agent.token_expiry,
                                         {}, now)
       IN /\ agent' = [agent EXCEPT !.token = res.token,
                                    !.token_expiry = res.token_expiry]
          /\ pub' = [pub EXCEPT !.pc = "Done", !.call = NoCall,
                                !.result = "false"]
    /\ UNCHANGED <<now, strm, coreVars, rbacVars, cloud>>

\* POST /pubsub/publish is answered: publish_data returns status == 200
PubAnswer(status) ==
    /\ pub.pc = "Sent"
    /\ cloud # "down"
    /\ pub' = [pub EXCEPT !.pc = "Done",
                          !.result = IF status = 200 THEN "true" ELSE "false"]
    /\ UNCHANGED <<now, strm, coreVars, rbacVars, agent, cloud>>

\* POST /pubsub/publish raises: except Exception returns False
PubException ==
    /\ pub.pc = "Sent"
    /\ cloud = "down"
    /\ pub' = [pub EXCEPT !.pc = "Done", !.result = "false"]
    /\ UNCHANGED <<now, strm, coreVars, rbacVars, agent, cloud>>

AgentPublishNext ==
    \/ \E data \in PublishInputs : AgentPublish(data)
    \/ RegistryServesAgent("publish")
    \/ PubRegistered
    \/ PubRegisterFails
    \/ \E status \in PublishStatuses : PubAnswer(status)
    \/ PubException

CloudNext == \E c \in CloudStates : CloudChange(c)

NextAgent ==
    Tick(AgentMaxTime) \/ CloudNext \/ AgentMainNext \/ AgentPublishNext

SpecAgent == Init /\ [][NextAgent]_vars

\* the start() task alone; the event loop keeps running it, its sleeps end,
\* and a reachable registry answers its request
NextAgentMain == Tick(AgentMaxTime) \/ CloudNext \/ AgentMainNext

SpecAgentLive ==
    Init /\ [][NextAgentMain]_vars /\ WF_vars(AgentMainNext)

\* ------------------------------------------------ _stream_data: actions
\* the generator is created for a text and a chunk_size and has not run yet
InitStream ==
    /\ InitBase
    /\ strm \in {[pc |-> "Running", data |-> d, chunk_size |-> c, i |-> 0,
                 yielded |-> << >>] :
                    d \in DataInputs, c \in 1..MaxChunkSize}

\* one pass of the loop: the slice at i is encoded and yielded
StreamYield ==
    /\ strm.pc = "Running"
    /\ strm.i < Len(strm.data)
    /\ encodable(chunk(strm.data, strm.i, strm.chunk_size))
    /\ strm' = [strm EXCEPT
                  !.yielded = Append(strm.yielded,
                                     encode(chunk(strm.data, strm.i,
                                                  strm.chunk_size))),
                  !.i = strm.i + strm.chunk_size]
    /\ UNCHANGED <<now, coreVars, rbacVars, agentVars>>

\* chunk.encode('utf-8') raises UnicodeEncodeError: the generator ends with
\* the exception
StreamRaise ==
    /\ strm.pc = "Running"
    /\ strm.i < Len(strm.data)
    /\ ~encodable(chunk(strm.data, strm.i, strm.chunk_size))
    /\ strm' = [strm EXCEPT !.pc = "Raised"]
    /\ UNCHANGED <<now, coreVars, rbacVars, agentVars>>

\* the range is used up: the generator ends
StreamEnd ==
    /\ strm.pc = "Running"
    /\ strm.i >= Len(strm.data)
    /\ strm' = [strm EXCEPT !.pc = "Done"]
    /\ UNCHANGED <<now, coreVars, rbacVars, agentVars>>

NextStream == StreamYield \/ StreamRaise \/ StreamEnd

SpecStream == InitStream /\ [][NextStream]_vars

\* =================================================================== claims
\* what the claims call a valid credential: the signature verifies, the exp
\* lies ahead, and the directory holds the subject's record (the directory of
\* the registry service keeps no status field: a record it holds is active,
\* a revoked device has none)
SignatureOk(tok) == tok.sig
Unexpired(tok) == now < tok.exp
SubjectActive(tok) == tok.device_id \in DOMAIN devices

\* C1: in every reachable state validate(token) succeeds, with the record of
\* the token's subject, if and only if the signature verifies, now < exp and
\* the directory holds an active record of the subject
C1_ValidIffSignatureExpiryActive ==
    \A tok \in PresentableTokens :
        LET v == validate_token(devices, tok, now)
        IN /\ v.ok <=> (SignatureOk(tok) /\ Unexpired(tok) /\ SubjectActive(tok))
           /\ v.ok => v.device_id = tok.device_id

\* C2: whenever a registration is served, validate of the token it returned,
\* made at once, succeeds and yields the record of the registered device_id
\* (neither the token nor the record of this authority carries a role)
C2_RegisterThenValidate ==
    [][\A r \in reg :
          reg' = {} =>
              \E p \in issued' :
                  /\ p[1] = r.device_id
                  /\ \A q \in issued' : q[1] = p[1] => q[2] <= p[2]
                  /\ LET v == validate_token(devices', Token(p[1], p[2], TRUE), now')
                     IN v.ok /\ v.device_id = r.device_id]_vars

\* C3: a token whose exp has passed fails validate whatever the directory
\* holds for its subject, at the authority, at the registry's endpoints and
\* at the gateway's verify_token
C3_ExpiredTokenFails ==
    \A tok \in PresentableTokens :
        tok.exp <= now =>
            /\ ~validate_token(devices, tok, now).ok
            /\ verify_token(devices, Bearer(tok), now).status = 401
            /\ gateway_verify_token(Bearer(tok), now) = 401
            /\ (fwd.auth = Bearer(tok) /\ fwd.pc \in {"Received", "Verifying"}
                    => ~fwd.validated /\ fwd.outbound = 0)

\* C3 witness: the gateway has rejected a forward of an active device whose
\* signed token has expired
C3_Witness ==
    /\ fwd.pc = "Rejected" /\ fwd.status = 401
    /\ fwd.auth.kind = "bearer" /\ fwd.auth.tok.sig
    /\ fwd.auth.tok.exp <= now
    /\ fwd.auth.tok.device_id = fwd.path
    /\ fwd.path \in DOMAIN devices

\* C4: while a device is revoked every token issued for it fails validate,
\* also when its signature verifies and its exp lies ahead
C4_RevokedTokenFails ==
    \A tok \in PresentableTokens :
        tok.device_id \in revoked => ~validate_token(devices, tok, now).ok

\* C4 witness: a revoked device with a signed, unexpired token
C4_Witness ==
    \E tok \in PresentableTokens :
        tok.device_id \in revoked /\ SignatureOk(tok) /\ Unexpired(tok)

\* C5: a register that was in flight when a revoke of the same id took effect
\* does not bring the revoked device's record back when it is served
C5_NoResurrectionByLateRegister ==
    [][\A r \in reg :
          (r.overtaken /\ reg' = {}) => r.device_id \notin DOMAIN devices']_vars

\* the subject of the bearer token of the forward in progress
FwdSubject == fwd.auth.tok.device_id
\* the forward has passed the checks that precede the outbound request
FwdDecided == fwd.pc \in {"Resolved", "Streaming"} \cup Terminal

\* C6: an outbound request is made only for a forward whose token validated;
\* a validated token whose subject is not the path's device_id gets 403 and
\* no outbound request
C6_ForwardOnlyOwnDevice ==
    /\ fwd.outbound > 0 => fwd.validated
    /\ fwd.pc \in {"Resolved", "Streaming", "Completed", "TimedOut", "Failed"}
           => fwd.validated
    /\ (fwd.validated /\ FwdSubject # fwd.path) => fwd.outbound = 0
    /\ (fwd.validated /\ FwdSubject # fwd.path /\ FwdDecided)
           => fwd.pc = "Rejected" /\ fwd.status = 403

\* C6 witness: a validated token used on another device's path was refused
C6_Witness ==
    /\ fwd.validated /\ FwdSubject # fwd.path
    /\ fwd.pc = "Rejected" /\ fwd.status = 403

\* C7: a forward of an authenticated, matching device whose record has no
\* configured URL gets 400 and no outbound request
C7_NoUrlIsBadTarget ==
    (/\ fwd.validated
     /\ FwdSubject = fwd.path
     /\ ~(\E p \in fwd.info_metadata : p[1] = "url"))
        => /\ fwd.outbound = 0
           /\ FwdDecided => fwd.pc = "Rejected" /\ fwd.status = 400

\* C7 witness: the 400 of a validated forward to the caller's own device
C7_Witness ==
    /\ fwd.validated /\ FwdSubject = fwd.path
    /\ fwd.pc = "Rejected" /\ fwd.status = 400

\* C8 as stated: once a device has been revoked, a forward for it that bears
\* a token issued before the revoke gets 401, never 502, and no outbound
\* request is made
C8_RevokedForwardIs401 ==
    fwd.stale =>
        /\ fwd.outbound = 0
        /\ fwd.pc \in Terminal => fwd.status = 401

\* C8 amended: the same, for as long as the device has not been registered
\* again since the revoke
C8_RevokedForwardIs401UntilRegistered ==
    (fwd.stale /\ ~fwd.rereg) =>
        /\ fwd.outbound = 0
        /\ fwd.pc \in Terminal => fwd.status = 401

\* C8 witness: the 401 of a forward that bears an unexpired token issued
\* before the revoke of its device
C8_Witness ==
    /\ fwd.stale /\ ~fwd.rereg
    /\ fwd.pc = "Rejected" /\ fwd.status = 401
    /\ now < fwd.auth.tok.exp

\* the Authorization header is missing or malformed, or the token is
\* malformed, expired, or of a subject that is unknown or revoked
BadCredential(a) ==
    \/ a.kind # "bearer"
    \/ ~a.tok.sig
    \/ a.tok.exp <= now
    \/ a.tok.device_id \notin DOMAIN devices

\* C9: every bearer-authenticated endpoint answers 401 to a bad credential
\* and changes no record then; a forward that did not validate ends in 401
C9_BadCredentialIs401 ==
    /\ \A a \in AuthInputs : BadCredential(a) =>
          /\ \A d \in PathIds :
                /\ http_get_device_info(devices, d, a, now).status = 401
                /\ http_get_device_info(devices, d, a, now).devices = devices
                /\ http_revoke_device(devices, d, a, now).status = 401
                /\ http_revoke_device(devices, d, a, now).devices = devices
                /\ \A m \in UpdateInputs :
                      /\ http_update_device_metadata(devices, d, m, a, now).status = 401
                      /\ http_update_device_metadata(devices, d, m, a, now).devices = devices
          /\ http_cleanup_expired_devices(devices, a, now).status = 401
          /\ http_cleanup_expired_devices(devices, a, now).devices = devices
          /\ \/ gateway_verify_token(a, now) = 401
             \/ http_get_device_info(devices, a.tok.device_id, a, now).status = 401
    /\ (fwd.pc \notin {"Idle", "Received", "Verifying"} /\ ~fwd.validated)
           => fwd.pc = "Rejected" /\ fwd.status = 401 /\ fwd.outbound = 0

\* C9 witness: the gateway answered 401 to a signed, unexpired token of a
\* revoked device, which the registry's endpoints refuse as well
C9_Witness ==
    /\ fwd.pc = "Rejected" /\ fwd.status = 401
    /\ fwd.auth.kind = "bearer" /\ fwd.auth.tok.sig /\ now < fwd.auth.tok.exp
    /\ fwd.auth.tok.device_id \in revoked
    /\ BadCredential(fwd.auth)

\* C10: sweepExpired(h) completes, removes exactly the devices whose
\* now - last_seen exceeds h, leaves the others as they were and returns the
\* number of records removed
C10_SweepRemovesExactlyInactive ==
    \A h \in MaxAgeInputs :
        LET c == cleanup_expired_devices(devices, h, now)
            stale == {d \in DOMAIN devices : now - devices[d].last_seen.t > h * Hour}
        IN /\ ~c.raised
           /\ DOMAIN c.devices = (DOMAIN devices) \ stale
           /\ \A d \in DOMAIN c.devices : c.devices[d] = devices[d]
           /\ c.count = Cardinality(stale)

C12_RegisterUpdatesInPlace ==
    /\ \A d \in DOMAIN devices : devices[d].device_id = d
    /\ \A d \in DeviceIds, m \in MetadataInputs :
          LET r == register_device(devices, d, m, now)
          IN /\ DOMAIN r.devices = (DOMAIN devices) \cup {d}
             /\ r.devices[d].device_id = d
             /\ r.devices[d].metadata = (IF m.none THEN {} ELSE m.dict)
             /\ r.devices[d].last_seen = Epoch(now)
             /\ \A e \in (DOMAIN devices) \ {d} : r.devices[e] = devices[e]
             /\ r.token.device_id = d /\ r.token.sig

\* C12 witness: a device that was registered at two different times and not
\* revoked since holds one record, with the metadata of its latest registration
C12_Witness ==
    \E d \in DOMAIN devices :
        /\ d # ""
        /\ Cardinality({p \in issued \ preRevoke : p[1] = d}) >= 2
        /\ devices[d].metadata = {}
        /\ devices[d].last_seen = Epoch(now)

\* C13: every served register returns a token that no earlier register
\* returned
C13_RegisterMintsFreshToken ==
    [][\A r \in reg :
          reg' = {} =>
              LET tok == register_device(devices, r.device_id, r.metadata, now).token
              IN <<tok.device_id, tok.exp>> \notin issued]_vars

\* C14: no record is ever filed under the empty device_id and no token is ever
\* signed for it
C14_EmptyIdRejected ==
    /\ "" \notin DOMAIN devices
    /\ \A p \in issued : p[1] # ""

\* C15: checkPermission(token, permission) is true only for a token that
\* validates (signature, expiry, active subject) and a permission in the
\* fixed permission set of the token's role
C15_PermissionNeedsValidCredential ==
    \A tok \in RbacPresentableTokens, perm \in Permissions :
        check_permission(tok, perm, now) =>
            /\ rbac_validate_token(registered_devices, tok, now).ok
            /\ tok.role \in DOMAIN _initialize_roles
            /\ perm \in _initialize_roles[tok.role]

\* C16: a rotation pass stores, for every active device, a token minted in
\* that pass, and leaves the device's metadata, status, role and last_seen
\* as they were
C16_RotateMintsAndKeepsRecord ==
    [][rotation' # rotation =>
          \A d \in DOMAIN registered_devices :
              registered_devices[d].status = "active" =>
                  /\ registered_devices'[d].token \in minted'
                  /\ registered_devices'[d].token.iat = now
                  /\ registered_devices'[d].token.exp = now + IntervalHours * Hour
                  /\ registered_devices'[d].metadata = registered_devices[d].metadata
                  /\ registered_devices'[d].status = registered_devices[d].status
                  /\ registered_devices'[d].role = registered_devices[d].role
                  /\ registered_devices'[d].last_seen = registered_devices[d].last_seen]_vars

\* C17: the periodic rotation task is never terminated; after a failed pass
\* it sleeps one interval from that pass, and the next pass can run as soon
\* as the sleep is over
C17_RotationSurvivesFailedPass ==
    /\ rotation.pc = "Sleeping"
    /\ rotation.last = "failed" =>
           rotation.wake = rotation.at + IntervalHours * Hour
    /\ now >= rotation.wake => ENABLED RotationPass

\* C17 witness: a pass has run one interval after a pass that failed
C17_Witness ==
    /\ rotation.resumed
    /\ rotation.at >= 2 * IntervalHours * Hour
    /\ rotation.pc = "Sleeping"

\* C18: GET /device/{id} answers with a record only when the subject of the
\* bearer token is the path's id
C18_GetDeviceInfoSelfOnly ==
    \A d \in PathIds, a \in AuthInputs :
        LET r == http_get_device_info(devices, d, a, now)
        IN (r.status = 200 /\ r.body \in DOMAIN r.devices)
               => a.tok.device_id = d

\* C19: once the outbound request of a forward was started, the expiry of the
\* deadline ends it with 504 and any other connection or transport error
\* ends it with 502 and the error's text; a request ended either way has no
\* response of the device to return
C19_TimeoutIs504ErrorIs502 ==
    /\ fwd.pc = "TimedOut" =>
           /\ fwd.outbound > 0
           /\ fwd.status = 504
           /\ fwd.response = NoResponse
    /\ (fwd.pc = "Failed" /\ fwd.outbound > 0) =>
           /\ fwd.status = 502
           /\ Len(fwd.detail) = 2 /\ fwd.detail[2] \in TransportErrors
           /\ fwd.response = NoResponse

\* C19 witness: a forward whose outbound request was started has timed out
C19_Witness ==
    /\ fwd.pc = "TimedOut" /\ fwd.outbound = 1 /\ fwd.status = 504
    /\ fwd.validated

\* C20: when the device answers, the gateway's response has the device's
\* status code, body and header lines, whatever the status
C20_ResponsePassedThrough ==
    fwd.pc = "Completed" =>
        /\ fwd.response.status_code = fwd.downstream.status
        /\ fwd.response.content = fwd.downstream.body
        /\ fwd.response.headers =
               {fwd.downstream.headers[i] : i \in DOMAIN fwd.downstream.headers}

\* C21: the outbound request of a forward has the inbound method, the
\* device's registered base URL followed by the subpath, the inbound body,
\* and every inbound header line but content-length together with
\* X-Forwarded-For and X-Original-URI
C21_OutboundMirrorsInbound ==
    fwd.pc = "Streaming" =>
        LET items == request_headers_items(fwd.request, fwd.auth)
        IN /\ fwd.sent.method = fwd.request.method
           /\ fwd.sent.url =
                  <<(CHOOSE p \in fwd.info_metadata : p[1] = "url")[2], "/",
                    fwd.request.endpoint>>
           /\ fwd.sent.data = fwd.request.body
           /\ fwd.sent.headers =
                  {items[i] : i \in {j \in DOMAIN items :
                                        items[j][1] # "content-length"}}
                  \cup {<<"X-Forwarded-For", fwd.request.client_host>>,
                        <<"X-Original-URI",
                          request_url(fwd.path, fwd.request.endpoint)>>}

NamedWait(n) == IF 2 ^ n < 30 THEN 2 ^ n ELSE 30
RECURSIVE NamedWaitSum(_)
NamedWaitSum(n) == IF n = 0 THEN 0 ELSE NamedWait(n) + NamedWaitSum(n - 1)
SteadyPcs == {"Steady", "SteadyCall"}

\* C23: during bootstrap the wait after the n-th consecutive failed
\* registration attempt is min(30, 2^n) seconds; when 5 attempts failed the
\* agent has waited the sum of min(30, 2^n) for n = 1..5 in total, and it
\* never makes a 6th attempt
C23_BackoffSchedule ==
    /\ agent.attempts <= 5
    /\ agent.retry_count > 0 => agent.wait_time = NamedWait(agent.retry_count)
    /\ agent.waited = NamedWaitSum(agent.retry_count)
    /\ agent.pc = "Fatal" =>
           /\ agent.attempts = 5
           /\ agent.retry_count = 5
           /\ agent.waited = NamedWaitSum(5)

C23_Witness ==
    /\ agent.pc = "Fatal"
    /\ agent.wait_time = 30
    /\ agent.waited = 2 + 4 + 8 + 16 + 30

\* C24: bootstrap ends with the fatal error exactly when all 5 attempts
\* failed, and in the steady-state loop exactly when one of the first 5
\* attempts succeeded; in the steady-state loop the agent holds a token
C24_BootstrapOutcome ==
    /\ agent.pc = "Fatal" =>
           /\ agent.attempts = 5
           /\ agent.retry_count = 5
           /\ ~agent.boot_ok
    /\ agent.pc \in SteadyPcs =>
           /\ agent.boot_ok
           /\ agent.attempts <= 5
           /\ agent.retry_count = agent.attempts - 1
           /\ agent.token # {}
           /\ agent.token_expiry # {}
    /\ agent.pc \in {"Boot", "BootCall"} =>
           /\ ~agent.boot_ok
           /\ agent.pc = "BootCall" => agent.attempts = agent.retry_count + 1

C24_Witness ==
    /\ agent.pc = "Steady"
    /\ agent.attempts = 5
    /\ agent.retry_count = 4
    /\ agent.token # {}

\* C25: the steady-state check that starts a re-registration happens before
\* the expiry of the token the agent holds
C25_ReregistersBeforeExpiry ==
    [][agent.pc = "Steady" /\ agent'.pc = "SteadyCall" =>
          \E e \in agent.token_expiry : now < e]_vars

\* C26: a publish called with no token or with an expired token makes
\* exactly one registration; when that fails the publish returns failure
\* without a publish request; when it succeeds the one publish request
\* bears the token the registration obtained. A publish called with an
\* unexpired token makes none
C26_PublishReregistersOnce ==
    /\ pub.entry \in {"none", "expired"} =>
           /\ pub.regs = 1
           /\ pub.pc = "Done" /\ ~pub.call_ok =>
                  pub.result = "false" /\ pub.requests = 0
           /\ pub.requests > 0 =>
                  /\ pub.requests = 1
                  /\ pub.call_ok
                  /\ pub.obtained # {}
                  /\ pub.bearer = pub.obtained
    /\ pub.entry = "valid" => pub.regs = 0 /\ pub.requests = 1

C26_Witness ==
    /\ pub.entry = "expired"
    /\ pub.pc = "Sent"
    /\ pub.bearer = pub.obtained
    /\ \E t \in pub.bearer : t.exp > now

\* C27: in the steady-state loop a failed re-registration leaves the token
\* and its expiry as they were and the loop running; the agent never leaves
\* the loop; and if the registry stays reachable the agent comes to hold a
\* token whose expiry lies ahead
C27_SteadyStateRecovers ==
    /\ [][agent.pc = "SteadyCall" /\ agent'.pc # "SteadyCall"
             /\ agent'.last = "false" =>
              /\ agent'.token = agent.token
              /\ agent'.token_expiry = agent.token_expiry
              /\ agent'.token # {}
              /\ agent'.pc = "Steady"]_vars
    /\ [][agent.pc \in SteadyPcs => agent'.pc \in SteadyPcs]_vars
    /\ [](agent.pc \in SteadyPcs =>
              <>(\/ cloud # "up"
                 \/ \E e \in agent.token_expiry : now < e))

C27_Witness ==
    /\ agent.pc = "Steady"
    /\ agent.last = "false"
    /\ agent.boot_ok
    /\ \E e \in agent.token_expiry : now >= e

\* C28: a publish request is a chunked stream when the payload is longer
\* than the fragment size and a single request when it is not, with the
\* bearer token of the agent either way
C28_TransportBySize ==
    pub.requests > 0 =>
        /\ pub.transport = "chunked" <=> pub.data.len > ChunkSize
        /\ pub.bearer = agent.token \/ pub.bearer = pub.obtained

ForwardEdges ==
    {<<t, "Received">> : t \in Terminal \cup {"Idle"}}
        \cup {<<"Received", "Verifying">>, <<"Received", "Rejected">>,
              <<"Verifying", "Authenticated">>, <<"Verifying", "Rejected">>,
              <<"Authenticated", "Resolved">>, <<"Authenticated", "Rejected">>,
              <<"Resolved", "Streaming">>, <<"Resolved", "Failed">>,
              <<"Streaming", "Completed">>, <<"Streaming", "TimedOut">>,
              <<"Streaming", "Failed">>}

\* C31: a forward enters Received, Authenticated, Resolved and Streaming in
\* that order and ends in one of Completed, TimedOut and Failed unless a
\* check refuses it; the credential is checked first (401), then the subject
\* against the path (403), then the URL (400), and a refused forward makes
\* no outbound request
C31_StagesInOrder ==
    /\ [][fwd'.pc # fwd.pc => <<fwd.pc, fwd'.pc>> \in ForwardEdges]_vars
    /\ [](fwd.pc = "Rejected" =>
             /\ fwd.outbound = 0
             /\ \/ fwd.status = 401 /\ ~fwd.validated
                \/ /\ fwd.status = 403
                   /\ fwd.validated
                   /\ fwd.info_id # fwd.path
                \/ /\ fwd.status = 400
                   /\ fwd.validated
                   /\ fwd.info_id = fwd.path
                   /\ ~(\E q \in fwd.info_metadata : q[1] = "url" /\ q[2] # ""))
    /\ [](fwd.pc \in {"Resolved", "Streaming", "Completed", "TimedOut", "Failed"}
             => /\ fwd.validated
                /\ fwd.info_id = fwd.path
                /\ \E q \in fwd.info_metadata : q[1] = "url" /\ q[2] # "")
    /\ [](fwd.pc \in {"Streaming", "Completed", "TimedOut"} => fwd.outbound = 1)

C31_Witness ==
    /\ fwd.pc = "Completed"
    /\ fwd.validated
    /\ fwd.outbound = 1
    /\ fwd.status = 200

\* C33: a validate that succeeds changes last_seen of the token's subject and
\* nothing else in the directory; a validate that fails changes nothing
C33_ValidateTouchesOnlyLastSeen ==
    \A tok \in PresentableTokens :
        LET res == validate_token(devices, tok, now)
        IN /\ DOMAIN res.devices = DOMAIN devices
           /\ ~res.ok => res.devices = devices
           /\ res.ok =>
                  /\ tok.device_id \in DOMAIN devices
                  /\ \A d \in DOMAIN devices :
                         /\ d # tok.device_id => res.devices[d] = devices[d]
                         /\ res.devices[d].device_id = devices[d].device_id
                         /\ res.devices[d].metadata = devices[d].metadata

C33_Witness ==
    /\ \E tok \in PresentableTokens :
           /\ validate_token(devices, tok, now).ok
           /\ validate_token(devices, tok, now).devices # devices
    /\ \E tok \in PresentableTokens :
           /\ tok.sig
           /\ tok.device_id \in DOMAIN devices
           /\ ~validate_token(devices, tok, now).ok

\* C34: the instant a record holds as last_seen never moves back while the
\* record stays in the directory, whatever operation of the registry or
\* step of a forward is taken
C34_LastSeenNeverDecreases ==
    [][\A d \in (DOMAIN devices) \cap (DOMAIN devices') :
          devices'[d].last_seen.t >= devices[d].last_seen.t]_vars

C34_Witness ==
    \E d \in DOMAIN devices :
        /\ devices[d].last_seen.t > 0
        /\ devices[d].last_seen.repr = "datetime"

\* C35: a step of a forward adds no record, removes none and changes no
\* metadata; the one record it may change is that of the token's subject,
\* by the last_seen its validation writes
C35_ForwardOnlyTouchesLastSeen ==
    [][fwd'.pc # fwd.pc =>
          /\ DOMAIN devices' = DOMAIN devices
          /\ \A d \in DOMAIN devices :
                 /\ devices'[d].device_id = devices[d].device_id
                 /\ devices'[d].metadata = devices[d].metadata
                 /\ devices'[d] # devices[d] =>
                        /\ fwd.pc = "Verifying"
                        /\ d = fwd.auth.tok.device_id
                        /\ fwd'.validated
                        /\ devices'[d].last_seen = Epoch(now)]_vars

C35_Witness ==
    /\ fwd.pc = "Authenticated"
    /\ now > 0
    /\ devices[fwd.info_id].last_seen = Epoch(now)
    /\ devices[fwd.info_id].metadata = UrlDict

\* C32 as stated: no token issued for an id before a revoke of that id is
\* accepted by validate afterwards, whatever follows
C32_PreRevokeTokenNeverAccepted ==
    \A p \in preRevoke : ~validate_token(devices, Token(p[1], p[2], TRUE), now).ok

\* C32: a token issued for an id before a revoke of that id is refused by
\* validate for as long as the id has not been registered again since
C32_PreRevokeTokenRefusedUntilRegistered ==
    \A p \in preRevoke :
        LET res == validate_token(devices, Token(p[1], p[2], TRUE), now)
        IN /\ p[1] \in revoked => ~res.ok /\ res.devices = devices
           /\ res.ok => p[1] \notin revoked /\ p[1] \in DOMAIN devices

C32_Witness ==
    \E p \in preRevoke :
        /\ p[1] \in revoked
        /\ p[2] > now
        /\ jwt_decode(Token(p[1], p[2], TRUE), now) = "ok"
        /\ ~validate_token(devices, Token(p[1], p[2], TRUE), now).ok

\* C36: whenever the agent takes the token it holds for valid (the clock is
\* before the expiry it recorded), the exp of that token has not passed, and
\* every publish request it sends carries a token whose exp has not passed
C36_HeldTokenUnexpiredAtAuthority ==
    /\ [](\A tok \in agent.token, e \in agent.token_expiry :
             now < e => now < tok.exp)
    /\ [][pub.pc # "Sent" /\ pub'.pc = "Sent" =>
             \A tok \in pub'.bearer : now < tok.exp]_vars

\* C37: in every reachable state POST /cleanup by a caller whose token
\* validates is answered 200 with a count, the device listing is computed,
\* and every record holds its last_seen as epoch seconds
C37_CleanupCompletes ==
    /\ \A a \in AuthInputs :
           verify_token(devices, a, now).status = 200 =>
               http_cleanup_expired_devices(devices, a, now).status = 200
    /\ ~list_devices(devices).raised
    /\ \A d \in DOMAIN devices : devices[d].last_seen.repr = "epoch"

\* C38: a step that adds an id to the directory serves a POST /register and
\* adds the id of that request; validate, the bodies of metadata update,
\* revoke and publish, and the sweep add no id, also when called for an id
\* whose record is gone
C38_OnlyRegisterAdds ==
    /\ [][DOMAIN devices' \ DOMAIN devices # {} =>
             /\ reg' = {}
             /\ \E r \in reg :
                    DOMAIN devices' = DOMAIN devices \cup {r.device_id}]_vars
    /\ [](\A d \in PathIds \ DOMAIN devices :
             /\ \A m \in UpdateInputs :
                    /\ ~update_device_metadata(devices, d, m, now).ok
                    /\ update_device_metadata(devices, d, m, now).devices = devices
             /\ ~revoke_device(devices, d).ok
             /\ revoke_device(devices, d).devices = devices
             /\ publish_data_body(devices, d, now).status = 500
             /\ publish_data_body(devices, d, now).devices = devices)
    /\ [](\A tok \in PresentableTokens :
             DOMAIN validate_token(devices, tok, now).devices = DOMAIN devices)
    /\ [](\A h \in MaxAgeInputs :
             DOMAIN cleanup_expired_devices(devices, h, now).devices
                 \subseteq DOMAIN devices)

C38_Witness ==
    /\ DOMAIN devices # {}
    /\ \E p \in issued :
           /\ p[1] \in PathIds \ DOMAIN devices
           /\ p[1] \in revoked
           /\ jwt_decode(Token(p[1], p[2], TRUE), now) = "ok"

\* C39: the agent holds a token exactly when it holds an expiry; the two
\* change only in the step that reads the 200 answer of a registration, which
\* sets both, and a registration that fails leaves both as they were
C39_TokenAndExpiryTogether ==
    /\ []((agent.token = {}) <=> (agent.token_expiry = {}))
    /\ [][(agent'.token # agent.token
              \/ agent'.token_expiry # agent.token_expiry) =>
             /\ \/ agent.call.phase = "answered" /\ agent'.call = NoCall
                \/ pub.call.phase = "answered" /\ pub'.call = NoCall
             /\ agent'.token # {}
             /\ agent'.token_expiry = {now + AgentTokenHours * Hour}]_vars
    /\ [][(agent'.last = "false" /\ agent.call # NoCall /\ agent'.call = NoCall)
              \/ (pub'.result = "false" /\ pub.pc = "Call" /\ pub'.pc = "Done") =>
             /\ agent'.token = agent.token
             /\ agent'.token_expiry = agent.token_expiry]_vars

C39_Witness ==
    /\ agent.last = "false"
    /\ agent.pc = "Steady"
    /\ agent.token # {}
    /\ agent.token_expiry # {}
    /\ pub.result = "false"
    /\ pub.regs = 1

RECURSIVE Concat(_)
\* the fragments joined in the order they were yielded
Concat(fragments) ==
    IF fragments = << >> THEN << >>
    ELSE Head(fragments) \o Concat(Tail(fragments))

\* the number of characters a UTF-8 byte sequence encodes: its bytes that
\* are not continuation bytes
CharCount(bytes) ==
    Cardinality({k \in DOMAIN bytes : bytes[k] < 128 \/ bytes[k] >= 192})

IsAscii(text) == \A k \in DOMAIN text : text[k] = "a"

\* C40 as stated: the generator runs to its end for every text, every
\* fragment has at least one and at most chunk_size bytes, every fragment
\* but the last has chunk_size bytes, the fragments joined are the text, and
\* an empty text yields none
C40_FragmentsTileData ==
    /\ strm.pc # "Raised"
    /\ \A k \in DOMAIN strm.yielded :
           /\ Len(strm.yielded[k]) >= 1
           /\ Len(strm.yielded[k]) <= strm.chunk_size
           /\ k < Len(strm.yielded) => Len(strm.yielded[k]) = strm.chunk_size
    /\ strm.pc = "Done" =>
           /\ Concat(strm.yielded) = encode(strm.data)
           /\ strm.data = << >> => strm.yielded = << >>

\* C40: the fragments are the UTF-8 encodings of consecutive slices of the
\* text: each encodes at least one and at most chunk_size characters, every
\* one but the last encodes chunk_size characters, a fragment of an ASCII
\* text has at most chunk_size bytes, the fragments joined are the encoding
\* of the text consumed so far and of the whole text at the end, an empty
\* text yields none, and the generator raises exactly at the first slice
\* that holds a character UTF-8 does not encode
C40_FragmentsTileEncodedData ==
    LET consumed == SubSeq(strm.data, 1,
                           IF strm.i < Len(strm.data) THEN strm.i
                           ELSE Len(strm.data))
        count == (Len(strm.data) + strm.chunk_size - 1) \div strm.chunk_size
    IN /\ encodable(consumed)
       /\ Concat(strm.yielded) = encode(consumed)
       /\ \A k \in DOMAIN strm.yielded :
              /\ Len(strm.yielded[k]) >= 1
              /\ CharCount(strm.yielded[k]) >= 1
              /\ CharCount(strm.yielded[k]) <= strm.chunk_size
              /\ k < Len(strm.yielded) =>
                     CharCount(strm.yielded[k]) = strm.chunk_size
              /\ k < count => CharCount(strm.yielded[k]) = strm.chunk_size
              /\ IsAscii(strm.data) => Len(strm.yielded[k]) <= strm.chunk_size
       /\ strm.pc = "Done" =>
              /\ encodable(strm.data)
              /\ Concat(strm.yielded) = encode(strm.data)
              /\ Len(strm.yielded) = count
              /\ strm.yielded = _stream_data(strm.data, strm.chunk_size)
              /\ strm.data = << >> => strm.yielded = << >>
       /\ strm.pc = "Raised" =>
              /\ ~encodable(strm.data)
              /\ Len(strm.yielded) < count
              /\ ~encodable(chunk(strm.data, strm.i, strm.chunk_size))

C40_Witness ==
    /\ strm.pc = "Done"
    /\ Len(strm.data) = MaxDataLen
    /\ Len(strm.yielded) = 2
    /\ Len(strm.yielded[1]) > strm.chunk_size
    /\ CharCount(strm.yielded[1]) = strm.chunk_size
    /\ CharCount(strm.yielded[2]) < strm.chunk_size

====
